---- MODULE Spec2Model ----
(***************************************************************************)
(* Model of the Redfish reference server: the session store of the auth   *)
(* service, the authentication middleware, the request router, the reset  *)
(* actions and the task store with its background workers.                *)
(*                                                                         *)
(* A request is handled by a connection (one goroutine per request).  The  *)
(* middleware, the routing and the part of a handler that touches no       *)
(* shared state, or touches it in one locked call, is one step (Arrive).   *)
(* Every later lock operation of a handler is a step of its own, and so is *)
(* every field the JSON encoder reads from a task after the handler has    *)
(* released the lock.  A worker goroutine takes a step per lock operation  *)
(* and per Task method it calls.                                           *)
(*                                                                         *)
(* Strings stand for themselves.  A path is the sequence strings.Split     *)
(* (path, "/") returns, so "/redfish/v1/" is <<"", "redfish", "v1", "">>.  *)
(* The clock now advances when a worker, its time.Sleep over, gets the     *)
(* lock; nothing in the server branches on a time.  A formatted time is    *)
(* now + 1, so that 0 is the empty string of an unset time field.          *)
(*                                                                         *)
(* tasksMutex is a sync.RWMutex: a writer that has called Lock keeps new   *)
(* readers out while it waits for the readers inside to leave.             *)
(***************************************************************************)
EXTENDS Integers, Sequences, FiniteSets, TLC

\* ------------------------------------------------------------ bounds

\* sessions ever created
MaxSessions == 2
\* task records ever allocated
MaxTasks == 1
\* task records ever allocated where two creations meet
MaxRecords == 2
MaxMembers == 3
\* request-handling goroutines that run concurrently
Conns == {"c1", "c2"}

\* ------------------------------------------------------------ helpers

Last(s) == s[Len(s)]

Range(s) == {s[i] : i \in 1..Len(s)}

\* ------------------------------------------------------------ auth service

VARIABLES
    sessions,    \* AuthService.sessions: token -> username
    issued,      \* every token CreateSession has returned -> the username it was created for
    revoked      \* the tokens DeleteSession has been called on and has returned

\* AuthService.users after NewAuthService
users ==
    [admin    |-> [Password |-> "password", Role |-> "Administrator", Enabled |-> TRUE],
     operator |-> [Password |-> "password", Role |-> "Operator",      Enabled |-> TRUE]]

\* the values rand.Read + hex.EncodeToString can return (never the empty string)
TokenNames == <<"tok1", "tok2", "tok3", "tok4">>

Tokens == {TokenNames[i] : i \in 1..MaxSessions}

\* the token rand.Read yields next: 256 random bits equal no token drawn before,
\* and the k-th token drawn is named TokenNames[k]
FreshTokens(drawn) ==
    {TokenNames[i] : i \in {Cardinality(DOMAIN drawn) + 1} \cap (1..MaxSessions)}

ValidateBasicAuth(username, password) ==
    IF username \notin DOMAIN users \/ ~users[username].Enabled
    THEN FALSE
    ELSE users[username].Password = password

\* the sessions map after CreateSession(username) has stored token
CreateSession(s, token, username) ==
    [t \in DOMAIN s \cup {token} |-> IF t = token THEN username ELSE s[t]]

ValidateSessionToken(s, token) ==
    IF token \notin DOMAIN s THEN <<"", FALSE>> ELSE <<s[token], TRUE>>

\* DeleteSession emptying the store
DeleteSession_all(s, token) == <<>>

\* DeleteSession without its delete
DeleteSession_keeps(s, token) == s

\* DeleteSession dropping the other sessions when the token is absent
DeleteSession_absentClears(s, token) ==
    IF token \in DOMAIN s THEN [t \in DOMAIN s \ {token} |-> s[t]] ELSE <<>>

DeleteSession(s, token) ==
    [t \in DOMAIN s \ {token} |-> s[t]]

\* ------------------------------------------------------------ requests

\* a JSON field the body does not hold, and one holding a value that is no string
Absent == "<absent>"
NotAString == "<number>"

NoBody == [kind |-> "none", ResetType |-> Absent, UserName |-> Absent,
           Password |-> Absent, Destination |-> Absent]

Malformed == [NoBody EXCEPT !.kind = "malformed"]

Json(fields) ==
    [f \in DOMAIN NoBody |->
        IF f = "kind" THEN "json"
        ELSE IF f \in DOMAIN fields THEN fields[f] ELSE Absent]

\* json.NewDecoder(r.Body).Decode(&requestBody) into a struct of string fields:
\* err is "EOF" for an empty body, "syntax" for text that is no JSON value and
\* "type" for a field holding a non-string; an absent field keeps the zero value ""
Decode(body, fields) ==
    LET val(f) == IF body[f] \in {Absent, NotAString} THEN "" ELSE body[f]
    IN  [err |-> CASE body.kind = "none" -> "EOF"
                   [] body.kind = "malformed" -> "syntax"
                   [] \E f \in fields : body[f] = NotAString -> "type"
                   [] OTHER -> "",
         ResetType   |-> IF body.kind = "json" THEN val("ResetType") ELSE "",
         UserName    |-> IF body.kind = "json" THEN val("UserName") ELSE "",
         Password    |-> IF body.kind = "json" THEN val("Password") ELSE "",
         Destination |-> IF body.kind = "json" THEN val("Destination") ELSE ""]

NoBasic == <<>>

\* a query parameter is the characters after its "=", or NoParam when the URL
\* does not hold the key
NoParam == <<"<absent>">>

\* url.Values.Get: "" also for a key the query does not hold
queryGet(value) == IF value = NoParam THEN <<>> ELSE value

\* the If-None-Match header is its characters, <<>> when the request has none
Request(method, path, basic, token, body, top, skip) ==
    [method |-> method, path |-> path, basic |-> basic, token |-> token,
     body |-> body, top |-> top, skip |-> skip, filter |-> NoParam,
     ifNoneMatch |-> <<>>]

NoReq == Request("", <<>>, NoBasic, "", NoBody, NoParam, NoParam)

\* ------------------------------------------------------------ responses

\* etag is the ETag header, <<>> when the response has none; count is the
\* number of members of the collection in the body, -1 without one
Response(status, code) ==
    [status |-> status, code |-> code, challenge |-> FALSE, location |-> "",
     token |-> "", count |-> -1, etag |-> <<>>]

NoResp == Response(0, "")

\* the 401 of AuthMiddleware and of handleCreateSession
Unauthorized == [Response(401, "Base.1.0.InsufficientPrivilege") EXCEPT !.challenge = TRUE]

sendRedfishError(code, statusCode) == Response(statusCode, code)

methodNotAllowed == sendRedfishError("MethodNotAllowed", 405)

\* the run-time panic of a slice expression
Panic == <<"panic: runtime error: slice bounds out of range">>

\* the handler has panicked before it wrote a header: net/http recovers, logs
\* and closes the connection without a response
Panicked == [Response(0, "") EXCEPT !.code = "panic"]

\* ------------------------------------------------------------ validators

Quote == "\""

\* the first eight hex digits of the md5 of the document's JSON, one symbol
\* per document
md5(data) == ToString(data)

generateETag(data) == <<Quote, md5(data), Quote>>

\* normalizeETag keeping the quotes
normalizeETag_keepsQuotes(etag) == etag

normalizeETag(etag) ==
    IF Len(etag) >= 2 /\ etag[1] = Quote /\ etag[Len(etag)] = Quote
    THEN SubSeq(etag, 2, Len(etag) - 1)
    ELSE etag

\* the end of a handler that computes the validator of its document: the ETag
\* header, then 304 for a matching If-None-Match, else the document
conditionalGet(r, data, resp) ==
    LET etag == generateETag(data)
    IN  IF /\ r.ifNoneMatch # <<>>
           /\ \/ normalizeETag(r.ifNoneMatch) = normalizeETag(etag)
              \/ r.ifNoneMatch = <<"*">>
        THEN [Response(304, "") EXCEPT !.etag = etag]
        ELSE [resp EXCEPT !.etag = etag]

\* the document of a handler: the resource and the members it lists
Document(id, members) == [id |-> id, Members |-> members]

\* the end of a collection's GET handler: the members, under conditionalGet
collectionResponse(r, h, members) ==
    IF members = Panic THEN Panicked
    ELSE conditionalGet(r, Document(h, members),
                        [Response(200, "") EXCEPT !.count = Len(members)])

\* ------------------------------------------------------------ middleware

redfish(rest) == <<"", "redfish", "v1">> \o rest

publicPaths ==
    { <<"", "health">>,
      redfish(<<"">>),
      redfish(<<"$metadata">>),
      redfish(<<"odata">>),
      redfish(<<"SessionService">>),
      redfish(<<"SessionService", "Sessions">>) }

requiresAuth(path) == path \notin publicPaths

NoUser == [Username |-> "", Method |-> ""]

\* AuthMiddleware taking every token for a session
AuthMiddleware_anyToken(s, r) ==
    IF ~requiresAuth(r.path)
    THEN [ok |-> TRUE, user |-> NoUser]
    ELSE IF r.basic # NoBasic /\ ValidateBasicAuth(r.basic[1], r.basic[2])
    THEN [ok |-> TRUE, user |-> [Username |-> r.basic[1], Method |-> "Basic"]]
    ELSE IF r.token # ""
    THEN [ok |-> TRUE, user |-> [Username |-> r.token, Method |-> "Session"]]
    ELSE [ok |-> FALSE, user |-> NoUser]

\* ok: next.ServeHTTP is called; user: the user context it is called with
AuthMiddleware(s, r) ==
    IF ~requiresAuth(r.path)
    THEN [ok |-> TRUE, user |-> NoUser]
    ELSE IF r.basic # NoBasic /\ ValidateBasicAuth(r.basic[1], r.basic[2])
    THEN [ok |-> TRUE, user |-> [Username |-> r.basic[1], Method |-> "Basic"]]
    ELSE IF r.token # "" /\ ValidateSessionToken(s, r.token)[2]
    THEN [ok |-> TRUE,
          user |-> [Username |-> ValidateSessionToken(s, r.token)[1], Method |-> "Session"]]
    ELSE [ok |-> FALSE, user |-> NoUser]

\* ------------------------------------------------------------ router

\* setupRoutes: the patterns of the ServeMux and the handler of each
routes ==
    << <<<<"", "health">>, "healthHandler">>,
       <<redfish(<<"$metadata">>), "metadataHandler">>,
       <<redfish(<<"odata">>), "odataHandler">>,
       <<redfish(<<"SessionService", "Sessions", "">>), "sessionItemHandler">>,
       <<redfish(<<"SessionService", "Sessions">>), "sessionsHandler">>,
       <<redfish(<<"SessionService", "Sessions", "Members">>), "sessionsHandler">>,
       <<redfish(<<"SessionService">>), "sessionServiceHandler">>,
       <<redfish(<<"AccountService", "Accounts", "">>), "accountHandler">>,
       <<redfish(<<"AccountService", "Accounts">>), "accountsHandler">>,
       <<redfish(<<"AccountService", "Roles", "">>), "roleHandler">>,
       <<redfish(<<"AccountService", "Roles">>), "rolesHandler">>,
       <<redfish(<<"AccountService">>), "accountServiceHandler">>,
       <<redfish(<<"Systems", "">>), "systemHandler">>,
       <<redfish(<<"Systems">>), "systemsHandler">>,
       <<redfish(<<"Chassis", "">>), "chassisItemHandler">>,
       <<redfish(<<"Chassis">>), "chassisHandler">>,
       <<redfish(<<"Managers", "">>), "managerHandler">>,
       <<redfish(<<"Managers">>), "managersHandler">>,
       <<redfish(<<"EventService", "Subscriptions", "">>), "eventSubscriptionHandler">>,
       <<redfish(<<"EventService", "Subscriptions">>), "eventSubscriptionsHandler">>,
       <<redfish(<<"EventService", "SSE">>), "eventSSEHandler">>,
       <<redfish(<<"EventService">>), "eventServiceHandler">>,
       <<redfish(<<"TaskService", "Tasks", "">>), "taskHandler">>,
       <<redfish(<<"TaskService", "Tasks">>), "tasksHandler">>,
       <<redfish(<<"TaskService">>), "taskServiceHandler">>,
       <<redfish(<<"Registries", "">>), "registryHandler">>,
       <<redfish(<<"Registries">>), "registriesHandler">>,
       <<redfish(<<"Oem", "Contoso", "CustomAction">>), "oemCustomActionHandler">>,
       <<redfish(<<"openapi.yaml">>), "openapiHandler">>,
       <<<<"", "redfish">>, "redfishRootHandler">>,
       <<<<"", "redfish", "v1">>, "serviceRootHandler">>,
       <<redfish(<<"">>), "serviceRootHandler">> >>

\* a ServeMux pattern ending in "/" matches every path it is a prefix of,
\* any other pattern matches the equal path only
Matches(pattern, path) ==
    IF Last(pattern) = ""
    THEN /\ Len(path) >= Len(pattern)
         /\ SubSeq(path, 1, Len(pattern) - 1) = SubSeq(pattern, 1, Len(pattern) - 1)
    ELSE path = pattern

\* the handler of the longest matching pattern, "" (the mux's 404) without one
Route(path) ==
    LET hits == {i \in 1..Len(routes) : Matches(routes[i][1], path)}
    IN  IF hits = {} THEN ""
        ELSE LET best == CHOOSE i \in hits :
                            \A j \in hits : Len(routes[j][1]) <= Len(routes[i][1])
             IN  routes[best][2]

\* ------------------------------------------------------------ query parameters

DigitValue(ch) ==
    CASE ch = "0" -> 0 [] ch = "1" -> 1 [] ch = "2" -> 2 [] ch = "3" -> 3
      [] ch = "4" -> 4 [] ch = "5" -> 5 [] ch = "6" -> 6 [] ch = "7" -> 7
      [] ch = "8" -> 8 [] ch = "9" -> 9 [] OTHER -> -1

\* a Go int of the 64-bit build: the four 16-bit limbs of its two's complement,
\* the lowest first
Base == 65536

\* the int with the value n, for -Base < n < Base
Int64(n) == IF n >= 0 THEN <<n, 0, 0, 0>> ELSE <<Base + n, Base - 1, Base - 1, Base - 1>>

RECURSIVE AddLimbs(_, _, _)
AddLimbs(a, b, carry) ==
    IF a = <<>> THEN <<>>
    ELSE LET sum == Head(a) + Head(b) + carry
         IN  <<sum % Base>> \o AddLimbs(Tail(a), Tail(b), sum \div Base)

\* a + b of two ints: the carry out of the highest limb is lost
Add64(a, b) == AddLimbs(a, b, 0)

Neg64(a) == Add64([i \in 1..4 |-> Base - 1 - a[i]], Int64(1))

IsNeg(a) == a[4] >= Base \div 2

\* a < b of two ints
Less64(a, b) ==
    IF IsNeg(a) # IsNeg(b) THEN IsNeg(a)
    ELSE \E i \in 1..4 : a[i] < b[i] /\ \A j \in (i + 1)..4 : a[j] = b[j]

\* the value of an int between -2^30 and 2^30
ToInt(a) ==
    IF IsNeg(a) THEN 0 - (Neg64(a)[1] + Base * Neg64(a)[2]) ELSE a[1] + Base * a[2]

RECURSIVE MulAddLimbs(_, _, _)
\* the limbs of a * m + carry, and after them the carry out of the highest
MulAddLimbs(a, m, carry) ==
    IF a = <<>> THEN <<carry>>
    ELSE LET p == Head(a) * m + carry
         IN  <<p % Base>> \o MulAddLimbs(Tail(a), m, p \div Base)

RECURSIVE Magnitude(_, _, _)
\* the base-10 value of the digits s after the value acc of the digits before
\* them; over: the value does not fit in 64 bits
Magnitude(s, acc, over) ==
    IF s = <<>> THEN [limbs |-> acc, over |-> over]
    ELSE LET m == MulAddLimbs(acc, 10, DigitValue(Head(s)))
         IN  Magnitude(Tail(s), SubSeq(m, 1, 4), over \/ m[5] > 0)

\* strconv.Atoi on the characters s: an optional sign, then one digit or more,
\* of a value between -2^63 and 2^63-1
Atoi(s) ==
    LET signed == s # <<>> /\ Head(s) \in {"+", "-"}
        neg == signed /\ Head(s) = "-"
        digits == IF signed THEN Tail(s) ELSE s
        m == Magnitude(digits, Int64(0), FALSE)
    IN  IF digits = <<>> \/ \E i \in 1..Len(digits) : DigitValue(digits[i]) < 0
        THEN [err |-> TRUE, val |-> Int64(0)]
        ELSE IF m.over \/ (IsNeg(m.limbs) /\ ~(neg /\ m.limbs = <<0, 0, 0, Base \div 2>>))
        THEN [err |-> TRUE, val |-> Int64(0)]
        ELSE [err |-> FALSE, val |-> IF neg THEN Neg64(m.limbs) ELSE m.limbs]

\* parseQueryParameters for the $top, $skip and $filter of the URL
parseQueryParameters(top, skip, filter) ==
    LET topStr == queryGet(top)
        skipStr == queryGet(skip)
    IN  IF topStr # <<>> /\ (Atoi(topStr).err \/ IsNeg(Atoi(topStr).val))
        THEN [err |-> TRUE, Top |-> Int64(0), Skip |-> Int64(0), Filter |-> <<>>]
        ELSE IF skipStr # <<>> /\ (Atoi(skipStr).err \/ IsNeg(Atoi(skipStr).val))
        THEN [err |-> TRUE, Top |-> Int64(0), Skip |-> Int64(0), Filter |-> <<>>]
        ELSE [err |-> FALSE,
              Top  |-> IF topStr # <<>> THEN Atoi(topStr).val ELSE Int64(0),
              Skip |-> IF skipStr # <<>> THEN Atoi(skipStr).val ELSE Int64(0),
              Filter |-> queryGet(filter)]

\* NewComputerSystemCollection().Members
SystemMembers == <<"1">>

\* the bounds of result.Members[start:end], the same in the three
\* applyQueryParametersTo functions
sliceBounds(totalMembers, params) ==
    LET total == Int64(totalMembers)
        start == IF Less64(total, params.Skip) THEN total ELSE params.Skip
        end   == IF Less64(Int64(0), params.Top) /\ Less64(Add64(start, params.Top), total)
                 THEN Add64(start, params.Top) ELSE total
    IN  [start |-> start, end |-> end]

\* members[start:end]; the capacity of the member lists is their length
slice(members, b) ==
    IF IsNeg(b.start) \/ Less64(b.end, b.start) \/ Less64(Int64(Len(members)), b.end)
    THEN Panic
    ELSE SubSeq(members, ToInt(b.start) + 1, ToInt(b.end))

\* a filter is the pieces of its text, cut so that every pattern the code
\* looks for is a run of whole pieces
PowerStateEq(value) == <<"PowerState", " eq ", value>>

\* strings.Contains
Contains(s, substr) ==
    \E i \in 1..(Len(s) - Len(substr) + 1) : SubSeq(s, i, i + Len(substr) - 1) = substr

\* applyFilterToSystems: the demo system is on
applyFilterToSystems(members, filter) ==
    IF Contains(filter, PowerStateEq("'On'")) \/ Contains(filter, PowerStateEq("\"On\""))
    THEN members
    ELSE IF Contains(filter, PowerStateEq("'Off'")) \/ Contains(filter, PowerStateEq("\"Off\""))
    THEN <<>>
    ELSE members

\* applyQueryParametersToSystems: the members left by $filter, then $skip and $top
applyQueryParametersToSystems(collection, params) ==
    LET members == IF params.Filter # <<>>
                   THEN applyFilterToSystems(collection, params.Filter) ELSE collection
    IN  slice(members, sliceBounds(Len(members), params))

\* NewChassisCollection().Members
ChassisMembers == <<"1">>

\* applyQueryParametersToChassis: the members left by $skip and $top
applyQueryParametersToChassis(members, params) ==
    slice(members, sliceBounds(Len(members), params))

\* NewManagerCollection().Members
ManagerMembers == <<"1">>

\* applyQueryParametersToManagers: the members left by $skip and $top
applyQueryParametersToManagers(members, params) ==
    slice(members, sliceBounds(Len(members), params))

\* ------------------------------------------------------------ tasks

\* the message the reset workers add
SuccessMessage == "Base.1.12.Success"

\* a formatted time: time.Now().Format(time.RFC3339) at clock reading t; 0 is ""
Format(t) == t + 1

NewTask(id, operation, targetUri, t) ==
    [ID |-> id, TaskState |-> "New", TaskStatus |-> "OK", StartTime |-> Format(t),
     EndTime |-> 0, PercentComplete |-> 0, Messages |-> <<>>,
     TargetUri |-> targetUri, HttpOperation |-> operation, JsonBody |-> ""]

\* UpdateTaskState stamping the end time on every change of state
UpdateTaskState_stampsAll(task, newState, t) ==
    [task EXCEPT !.TaskState = newState, !.EndTime = Format(t),
                 !.PercentComplete = IF newState = "Completed" THEN 100 ELSE @]

UpdateTaskState(task, newState, t) ==
    LET a == [task EXCEPT !.TaskState = newState]
    IN  CASE newState = "Running" ->
               IF a.StartTime = 0 THEN [a EXCEPT !.StartTime = Format(t)] ELSE a
          [] newState \in {"Completed", "Cancelled", "Exception"} ->
               LET b == [a EXCEPT !.EndTime = Format(t)]
               IN  IF newState = "Completed" THEN [b EXCEPT !.PercentComplete = 100] ELSE b
          [] OTHER -> a

AddMessage(task, message) == [task EXCEPT !.Messages = Append(@, message)]

SetPercentComplete(task, percent) ==
    IF percent >= 0 /\ percent <= 100 THEN [task EXCEPT !.PercentComplete = percent] ELSE task

Terminal == {"Completed", "Cancelled", "Exception"}

\* a worker that completes every task without a message
WorkerProgram_silent(kind) ==
    LET step(op, state, percent) == [op |-> op, state |-> state, percent |-> percent]
    IN  << step("Lock", "", 0),
           step("UpdateTaskState", "Completed", 0),
           step("SetPercentComplete", "", 100),
           step("Unlock", "", 0) >>

\* a worker that goes back to Running after it has completed its task
WorkerProgram_restarts(kind) ==
    LET step(op, state, percent) == [op |-> op, state |-> state, percent |-> percent]
    IN  << step("Lock", "", 0),
           step("UpdateTaskState", "Completed", 0),
           step("SetPercentComplete", "", 100),
           step("Unlock", "", 0),
           step("Lock", "", 0),
           step("UpdateTaskState", "Running", 0),
           step("SetPercentComplete", "", 50),
           step("Unlock", "", 0) >>

\* a worker that reports less progress in its second update than in its first
WorkerProgram_regresses(kind) ==
    LET step(op, state, percent) == [op |-> op, state |-> state, percent |-> percent]
    IN  << step("Lock", "", 0),
           step("UpdateTaskState", "Running", 0),
           step("SetPercentComplete", "", 50),
           step("Unlock", "", 0),
           step("Lock", "", 0),
           step("SetPercentComplete", "", 25),
           step("UpdateTaskState", "Completed", 0),
           step("Unlock", "", 0) >>

\* the steps of the worker goroutine of each kind of task, after its time.Sleep
WorkerProgram(kind) ==
    LET step(op, state, percent) == [op |-> op, state |-> state, percent |-> percent]
        lock == step("Lock", "", 0)
        unlock == step("Unlock", "", 0)
    IN  IF kind \in {"ComputerSystem.Reset", "Manager.Reset"}
        THEN << lock,
                step("UpdateTaskState", "Completed", 0),
                step("SetPercentComplete", "", 100),
                step("AddMessage", "", 0),
                unlock >>
        ELSE << lock,
                step("UpdateTaskState", "Running", 0),
                step("SetPercentComplete", "", 50),
                unlock,
                lock,
                step("UpdateTaskState", "Completed", 0),
                step("SetPercentComplete", "", 100),
                unlock >>

\* the identifiers fmt.Sprintf("%x", md5.Sum(...))[:8] can return
TaskNames == <<"id1", "id2", "id3", "id4">>

TaskIds == {TaskNames[i] : i \in 1..MaxTasks}

\* the identifier of a new task: one already given out (the digests of two
\* requests collide), or the next one
NewIds(allocated) ==
    {TaskNames[i] : i \in 1..(Cardinality({allocated[j].ID : j \in DOMAIN allocated}) + 1)}

validResetTypes(action) ==
    IF action = "ComputerSystem.Reset"
    THEN {"On", "ForceOff", "ForceRestart", "Nmi", "PushPowerButton",
          "GracefulRestart", "GracefulShutdown", "ForceOn"}
    ELSE {"ForceRestart", "GracefulRestart"}

defaultResetType(action) ==
    IF action = "ComputerSystem.Reset" THEN "On" ELSE "GracefulRestart"

\* ------------------------------------------------------------ state

VARIABLES
    tasks,       \* the map tasks: identifier -> the task record it points to (an index of heap)
    heap,        \* the task records allocated by models.NewTask, in allocation order
    workers,     \* the goroutine started for each task record: its kind and its next step
    tasksMutex,  \* the RWMutex: the worker or connection that is the writer, the connections holding RLock
    now,         \* the clock
    conn,        \* each request goroutine: its position, its request, its locals, its response
    mutated,     \* whether the request a connection is handling has changed a store or started a worker
    committed,   \* for each task record, the values it had at allocation and at each worker Unlock
    deleted      \* the identifiers whose last change in the map was a DELETE

authVars == <<sessions, issued, revoked>>

taskVars == <<tasks, heap, workers, tasksMutex, committed, deleted>>

vars == <<sessions, issued, revoked, tasks, heap, workers, tasksMutex, now, conn,
          mutated, committed, deleted>>

\* what a failed request must leave alone
stores == <<sessions, tasks, heap, workers>>

Unlocked == [worker |-> 0, conn |-> "", readers |-> {}]

NoSnap == [n |-> 0, TaskState |-> "", EndTime |-> 0, PercentComplete |-> 0, Messages |-> <<>>]

Idle == [pc |-> "idle", req |-> NoReq, user |-> NoUser, handler |-> "", task |-> 0,
         id |-> "", snap |-> NoSnap, resp |-> NoResp]

\* the fields of a task record a worker changes
View(task) ==
    [n |-> 4, TaskState |-> task.TaskState, EndTime |-> task.EndTime,
     PercentComplete |-> task.PercentComplete, Messages |-> task.Messages]

Init ==
    /\ sessions = <<>>
    /\ issued = <<>>
    /\ revoked = {}
    /\ tasks = <<>>
    /\ heap = <<>>
    /\ workers = <<>>
    /\ tasksMutex = Unlocked
    /\ now = 0
    /\ conn = [c \in Conns |-> Idle]
    /\ mutated = [c \in Conns |-> FALSE]
    /\ committed = <<>>
    /\ deleted = {}

\* the connection c goes on at pc, inside handler h
Continue(c, r, user, h, pc, task, id) ==
    conn' = [conn EXCEPT ![c] = [pc |-> pc, req |-> r, user |-> user, handler |-> h,
                                 task |-> task, id |-> id, snap |-> NoSnap, resp |-> NoResp]]

\* the connection c has written the response resp
Reply(c, r, user, h, resp) ==
    conn' = [conn EXCEPT ![c] = [pc |-> "done", req |-> r, user |-> user, handler |-> h,
                                 task |-> 0, id |-> "", snap |-> NoSnap, resp |-> resp]]

\* ------------------------------------------------------------ session handlers

\* handleCreateSession storing the session before it has checked the password
handleCreateSession_storesFirst(c, r, user) ==
    LET h == "sessionsHandler"
        d == Decode(r.body, {"UserName", "Password"})
        ok == r.basic # NoBasic \/ d.err = ""
        username == IF r.basic # NoBasic THEN r.basic[1]
                    ELSE IF d.err = "" THEN d.UserName ELSE ""
        password == IF r.basic # NoBasic THEN r.basic[2]
                    ELSE IF d.err = "" THEN d.Password ELSE ""
    IN  IF ~ok \/ username = "" \/ password = ""
        THEN Reply(c, r, user, h, Unauthorized) /\ UNCHANGED authVars
        ELSE \E token \in FreshTokens(issued) :
                /\ sessions' = CreateSession(sessions, token, username)
                /\ issued' = CreateSession(issued, token, username)
                /\ UNCHANGED revoked
                /\ Reply(c, r, user, h,
                         IF ~ValidateBasicAuth(username, password) THEN Unauthorized
                         ELSE [Response(201, "") EXCEPT !.token = token, !.location = token])

\* handleCreateSession: the credentials of the Basic header, else of the JSON body
handleCreateSession(c, r, user) ==
    LET h == "sessionsHandler"
        d == Decode(r.body, {"UserName", "Password"})
        ok == r.basic # NoBasic \/ d.err = ""
        username == IF r.basic # NoBasic THEN r.basic[1]
                    ELSE IF d.err = "" THEN d.UserName ELSE ""
        password == IF r.basic # NoBasic THEN r.basic[2]
                    ELSE IF d.err = "" THEN d.Password ELSE ""
    IN  IF ~ok \/ username = "" \/ password = ""
        THEN Reply(c, r, user, h, Unauthorized) /\ UNCHANGED authVars
        ELSE IF ~ValidateBasicAuth(username, password)
        THEN Reply(c, r, user, h, Unauthorized) /\ UNCHANGED authVars
        ELSE \E token \in FreshTokens(issued) :
                /\ sessions' = CreateSession(sessions, token, username)
                /\ issued' = CreateSession(issued, token, username)
                /\ UNCHANGED revoked
                /\ Reply(c, r, user, h,
                         [Response(201, "") EXCEPT !.token = token, !.location = token])

sessionsHandler(c, r, user) ==
    /\ UNCHANGED <<taskVars, now>>
    /\ CASE r.method = "GET" ->
              /\ Reply(c, r, user, "sessionsHandler",
                       collectionResponse(r, "sessionsHandler", <<>>))
              /\ UNCHANGED authVars
         [] r.method = "POST" -> handleCreateSession(c, r, user)
         [] OTHER ->
              /\ Reply(c, r, user, "sessionsHandler", methodNotAllowed)
              /\ UNCHANGED authVars

\* strings.TrimPrefix(r.URL.Path, "/redfish/v1/SessionService/Sessions/"): the
\* segment after the prefix; a longer rest holds a "/" and equals no token
sessionID(path) == IF Len(path) = 6 THEN path[6] ELSE "<nested>"

\* sessionItemHandler up to its switch: the session must exist
sessionItemHandler(c, r, user) ==
    /\ UNCHANGED <<authVars, taskVars, now>>
    /\ IF ~ValidateSessionToken(sessions, sessionID(r.path))[2]
       THEN Reply(c, r, user, "sessionItemHandler", sendRedfishError("ResourceNotFound", 404))
       ELSE IF r.method \notin {"GET", "DELETE"}
       THEN Reply(c, r, user, "sessionItemHandler", methodNotAllowed)
       ELSE Continue(c, r, user, "sessionItemHandler", "session", 0, sessionID(r.path))

\* handleGetSession and handleDeleteSession
SessionItem(c) ==
    /\ conn[c].pc = "session"
    /\ UNCHANGED <<taskVars, now>>
    /\ IF conn[c].req.method = "GET"
       THEN /\ Reply(c, conn[c].req, conn[c].user, conn[c].handler, Response(200, ""))
            /\ UNCHANGED authVars
       ELSE /\ sessions' = DeleteSession(sessions, conn[c].id)
            /\ revoked' = revoked \cup {conn[c].id}
            /\ UNCHANGED issued
            /\ Reply(c, conn[c].req, conn[c].user, conn[c].handler, Response(204, ""))

\* ------------------------------------------------------------ static documents

\* the handlers of a generated document that end with the ETag header and the
\* If-None-Match check
etagHandlers ==
    {"openapiHandler", "serviceRootHandler", "accountServiceHandler", "metadataHandler",
     "odataHandler", "sessionServiceHandler", "accountsHandler", "accountHandler",
     "rolesHandler", "roleHandler", "chassisItemHandler"}

\* a handler that serves a generated document: the verbs of allow answer 200
staticHandler(c, r, user, h, allow) ==
    /\ UNCHANGED <<authVars, taskVars, now>>
    /\ Reply(c, r, user, h,
             IF r.method \notin allow THEN methodNotAllowed
             ELSE IF h \in etagHandlers
             THEN conditionalGet(r, Document(h, <<>>), Response(200, ""))
             ELSE Response(200, ""))

\* systemsHandler and handleGetSystems
systemsHandler(c, r, user) ==
    /\ UNCHANGED <<authVars, taskVars, now>>
    /\ LET params == parseQueryParameters(r.top, r.skip, r.filter)
       IN  Reply(c, r, user, "systemsHandler",
                 IF r.method # "GET" THEN methodNotAllowed
                 ELSE IF params.err THEN sendRedfishError("QueryParameterError", 400)
                 ELSE collectionResponse(r, "systemsHandler",
                          applyQueryParametersToSystems(SystemMembers, params)))

\* chassisHandler and handleGetChassis
chassisHandler(c, r, user) ==
    /\ UNCHANGED <<authVars, taskVars, now>>
    /\ LET params == parseQueryParameters(r.top, r.skip, r.filter)
       IN  Reply(c, r, user, "chassisHandler",
                 IF r.method # "GET" THEN methodNotAllowed
                 ELSE IF params.err THEN sendRedfishError("QueryParameterError", 400)
                 ELSE collectionResponse(r, "chassisHandler",
                          applyQueryParametersToChassis(ChassisMembers, params)))

\* managersHandler and handleGetManagers
managersHandler(c, r, user) ==
    /\ UNCHANGED <<authVars, taskVars, now>>
    /\ LET params == parseQueryParameters(r.top, r.skip, r.filter)
       IN  Reply(c, r, user, "managersHandler",
                 IF r.method # "GET" THEN methodNotAllowed
                 ELSE IF params.err THEN sendRedfishError("QueryParameterError", 400)
                 ELSE collectionResponse(r, "managersHandler",
                          applyQueryParametersToManagers(ManagerMembers, params)))

\* the identifiers handlePostEventSubscription can generate: eight hex digits
\* of the md5 of the destination and the time of the request
SubscriptionIds == {"sub1", "sub2"}

\* eventSubscriptionsHandler and handlePostEventSubscription: nothing is stored
eventSubscriptionsHandler(c, r, user) ==
    /\ UNCHANGED <<authVars, taskVars, now>>
    /\ LET d == Decode(r.body, {"Destination"})
       IN  CASE r.method = "GET" ->
                  Reply(c, r, user, "eventSubscriptionsHandler",
                        [Response(200, "") EXCEPT !.count = 0])
             [] r.method = "POST" ->
                  IF d.err # "" \/ d.Destination = ""
                  THEN Reply(c, r, user, "eventSubscriptionsHandler", Response(400, ""))
                  ELSE \E id \in SubscriptionIds :
                          Reply(c, r, user, "eventSubscriptionsHandler",
                                [Response(201, "") EXCEPT !.location = id])
             [] OTHER -> Reply(c, r, user, "eventSubscriptionsHandler", methodNotAllowed)

\* ------------------------------------------------------------ actions and tasks

\* models.NewTask, the go statement that starts its worker, and the handler's
\* way to the Lock before tasks[id] = task
StartTask(c, r, user, h, kind, body) ==
    /\ \E id \in NewIds(heap) :
          LET task == [NewTask(id, "POST", r.path, now) EXCEPT !.JsonBody = body]
          IN  /\ heap' = Append(heap, task)
              /\ workers' = Append(workers, [kind |-> kind, pc |-> 1])
              /\ committed' = Append(committed, {View(task)})
              /\ Continue(c, r, user, h, "insert_lock", Len(heap) + 1, id)
    /\ UNCHANGED <<authVars, tasks, tasksMutex, deleted, now>>

\* handleComputerSystemReset and handleManagerReset
handleReset(c, r, user, h, action) ==
    LET d == Decode(r.body, {"ResetType"})
        resetType == IF d.ResetType = "" THEN defaultResetType(action) ELSE d.ResetType
    IN  IF d.err \notin {"", "EOF"}
        THEN /\ Reply(c, r, user, h, sendRedfishError("MalformedJSON", 400))
             /\ UNCHANGED <<authVars, taskVars, now>>
        ELSE IF resetType \notin validResetTypes(action)
        THEN /\ Reply(c, r, user, h, sendRedfishError("InvalidParameter", 400))
             /\ UNCHANGED <<authVars, taskVars, now>>
        ELSE StartTask(c, r, user, h, action, resetType)

\* strings.Contains(path, "/Actions/")
containsActions(path) == \E i \in 1..(Len(path) - 1) : path[i] = "Actions"

\* handleSystemAction and handleManagerAction: parts[5] is path[6]
handleAction(c, r, user, h, action) ==
    IF Len(r.path) < 7 \/ r.path[6] # "Actions"
    THEN /\ Reply(c, r, user, h, sendRedfishError("InvalidAction", 400))
         /\ UNCHANGED <<authVars, taskVars, now>>
    ELSE IF r.method = "POST" /\ r.path[7] = action
    THEN handleReset(c, r, user, h, action)
    ELSE /\ Reply(c, r, user, h,
                  IF r.method \notin {"GET", "POST"} THEN methodNotAllowed
                  ELSE IF r.path[7] = action THEN Response(200, "")
                  ELSE sendRedfishError("ActionNotSupported", 400))
         /\ UNCHANGED <<authVars, taskVars, now>>

\* systemHandler and managerHandler: an action, or the resource itself
resourceHandler(c, r, user, h, action) ==
    IF containsActions(r.path)
    THEN handleAction(c, r, user, h, action)
    ELSE /\ Reply(c, r, user, h,
                  IF r.method # "GET" THEN methodNotAllowed
                  ELSE IF h = "systemHandler" /\ parseQueryParameters(r.top, r.skip, r.filter).err
                  THEN sendRedfishError("QueryParameterError", 400)
                  ELSE conditionalGet(r, Document(<<h, r.path[5]>>, <<>>), Response(200, "")))
         /\ UNCHANGED <<authVars, taskVars, now>>

\* tasksHandler: handleGetTasks starts with RLock, handlePostTask with a new task
tasksHandler(c, r, user) ==
    CASE r.method = "GET" ->
           /\ Continue(c, r, user, "tasksHandler", "list_rlock", 0, "")
           /\ UNCHANGED <<authVars, taskVars, now>>
      [] r.method = "POST" -> StartTask(c, r, user, "tasksHandler", "PostTask", "")
      [] OTHER ->
           /\ Reply(c, r, user, "tasksHandler", methodNotAllowed)
           /\ UNCHANGED <<authVars, taskVars, now>>

\* taskHandler: the identifier is the first segment after the prefix
taskHandler(c, r, user) ==
    /\ UNCHANGED <<authVars, taskVars, now>>
    /\ LET id == r.path[6]
       IN  IF id = "" THEN Reply(c, r, user, "taskHandler", Response(400, ""))
           ELSE IF r.method = "GET"
           THEN Continue(c, r, user, "taskHandler", "get_rlock", 0, id)
           ELSE IF r.method = "DELETE"
           THEN Continue(c, r, user, "taskHandler", "delete_lock", 0, id)
           ELSE Reply(c, r, user, "taskHandler", methodNotAllowed)

\* eventSubscriptionHandler finding every subscription
eventSubscriptionHandler_finds(c, r, user) ==
    /\ UNCHANGED <<authVars, taskVars, now>>
    /\ Reply(c, r, user, "eventSubscriptionHandler",
             IF r.path[6] = "" THEN Response(400, "")
             ELSE IF r.method = "GET" THEN Response(200, "")
             ELSE IF r.method = "DELETE" THEN Response(204, "")
             ELSE methodNotAllowed)

\* eventSubscriptionHandler: no subscription is ever found
eventSubscriptionHandler(c, r, user) ==
    /\ UNCHANGED <<authVars, taskVars, now>>
    /\ Reply(c, r, user, "eventSubscriptionHandler",
             IF r.path[6] = "" THEN Response(400, "")
             ELSE IF r.method \in {"GET", "DELETE"} THEN Response(404, "")
             ELSE methodNotAllowed)

\* ------------------------------------------------------------ a request arrives

\* the mux: the handler of the request's path
Serve(c, r, user) ==
    LET h == Route(r.path)
    IN  CASE h = "" ->
                /\ Reply(c, r, user, "NotFoundHandler", Response(404, ""))
                /\ UNCHANGED <<authVars, taskVars, now>>
          [] h = "sessionsHandler" -> sessionsHandler(c, r, user)
          [] h = "sessionItemHandler" -> sessionItemHandler(c, r, user)
          [] h = "systemsHandler" -> systemsHandler(c, r, user)
          [] h = "chassisHandler" -> chassisHandler(c, r, user)
          [] h = "managersHandler" -> managersHandler(c, r, user)
          [] h = "systemHandler" -> resourceHandler(c, r, user, h, "ComputerSystem.Reset")
          [] h = "managerHandler" -> resourceHandler(c, r, user, h, "Manager.Reset")
          [] h = "tasksHandler" -> tasksHandler(c, r, user)
          [] h = "taskHandler" -> taskHandler(c, r, user)
          [] h = "eventSubscriptionsHandler" -> eventSubscriptionsHandler(c, r, user)
          [] h = "eventSubscriptionHandler" -> eventSubscriptionHandler(c, r, user)
          [] h \in {"serviceRootHandler", "redfishRootHandler"} ->
                staticHandler(c, r, user, h, {"GET", "HEAD"})
          [] OTHER -> staticHandler(c, r, user, h, {"GET"})

\* the request's changes to the stores so far
Track(c) == mutated' = [mutated EXCEPT ![c] = @ \/ stores' # stores]

\* AuthMiddleware, CORSMiddleware, the mux and the handler up to its first lock
Arrive(c, r) ==
    /\ conn[c].pc = "idle"
    /\ LET a == AuthMiddleware(sessions, r)
       IN  IF ~a.ok
           THEN /\ Reply(c, r, NoUser, "", Unauthorized)
                /\ UNCHANGED <<authVars, taskVars, now>>
           ELSE IF r.method = "OPTIONS"
           THEN /\ Reply(c, r, a.user, "CORSMiddleware", Response(200, ""))
                /\ UNCHANGED <<authVars, taskVars, now>>
           ELSE Serve(c, r, a.user)
    /\ Track(c)

\* the response has been read; the goroutine ends
Close(c) ==
    /\ conn[c].pc = "done"
    /\ conn' = [conn EXCEPT ![c] = Idle]
    /\ mutated' = [mutated EXCEPT ![c] = FALSE]
    /\ UNCHANGED <<authVars, taskVars, now>>

SessionItemStep(c) == SessionItem(c) /\ Track(c)

\* ------------------------------------------------------------ the task lock

\* tasksMutex.Lock() of a creating or deleting handler: it is the writer once no
\* other is, and it has the lock once the readers have left
Lock(c) ==
    /\ conn[c].pc \in {"insert_lock", "delete_lock"}
    /\ tasksMutex.worker = 0 /\ tasksMutex.conn \in {"", c}
    /\ tasksMutex' = [tasksMutex EXCEPT !.conn = c]
    /\ conn' = [conn EXCEPT ![c].pc = IF tasksMutex.readers # {} THEN @
                                      ELSE IF @ = "insert_lock" THEN "insert" ELSE "delete"]
    /\ UNCHANGED <<authVars, tasks, heap, workers, committed, deleted, now>>
    /\ Track(c)

\* tasksMutex.RLock() of handleGetTask and handleGetTasks
RLock(c) ==
    /\ conn[c].pc \in {"get_rlock", "list_rlock"}
    /\ tasksMutex.worker = 0 /\ tasksMutex.conn = ""
    /\ tasksMutex' = [tasksMutex EXCEPT !.readers = @ \cup {c}]
    /\ conn' = [conn EXCEPT ![c].pc = IF @ = "get_rlock" THEN "get" ELSE "list"]
    /\ UNCHANGED <<authVars, tasks, heap, workers, committed, deleted, now>>
    /\ Track(c)

\* the map after tasks[id] = task
Store(m, id, task) == [i \in DOMAIN m \cup {id} |-> IF i = id THEN task ELSE m[i]]

\* the map after delete(tasks, id)
Remove(m, id) == [i \in DOMAIN m \ {id} |-> m[i]]

\* a handler that unlocks without tasks[id] = task
Insert_skipped(c) ==
    /\ conn[c].pc = "insert"
    /\ tasksMutex' = Unlocked
    /\ conn' = [conn EXCEPT ![c].pc = IF conn[c].handler = "tasksHandler"
                                      THEN "encode" ELSE "respond"]
    /\ UNCHANGED <<authVars, tasks, deleted, heap, workers, committed, now>>
    /\ mutated' = mutated

\* tasks[id] = task; tasksMutex.Unlock()
Insert(c) ==
    /\ conn[c].pc = "insert"
    /\ tasks' = Store(tasks, conn[c].id, conn[c].task)
    /\ deleted' = deleted \ {conn[c].id}
    /\ tasksMutex' = Unlocked
    /\ conn' = [conn EXCEPT ![c].pc = IF conn[c].handler = "tasksHandler"
                                      THEN "encode" ELSE "respond"]
    /\ UNCHANGED <<authVars, heap, workers, committed, now>>
    /\ Track(c)

\* the 202 of a reset action, with the Location of its task
Respond(c) ==
    /\ conn[c].pc = "respond"
    /\ conn' = [conn EXCEPT ![c].pc = "done",
                            ![c].resp = [Response(202, "") EXCEPT !.location = conn[c].id]]
    /\ UNCHANGED <<authVars, taskVars, now>>
    /\ Track(c)

\* handleDeleteTask between Lock and its response
Delete(c) ==
    /\ conn[c].pc = "delete"
    /\ LET exists == conn[c].id \in DOMAIN tasks
       IN  /\ tasks' = IF exists THEN Remove(tasks, conn[c].id) ELSE tasks
           /\ deleted' = IF exists THEN deleted \cup {conn[c].id} ELSE deleted
           /\ conn' = [conn EXCEPT ![c].pc = "done",
                                   ![c].resp = Response(IF exists THEN 204 ELSE 404, "")]
    /\ tasksMutex' = Unlocked
    /\ UNCHANGED <<authVars, heap, workers, committed, now>>
    /\ Track(c)

\* handleGetTask between RLock and RUnlock: the pointer is all it reads
Get(c) ==
    /\ conn[c].pc = "get"
    /\ tasksMutex' = [tasksMutex EXCEPT !.readers = @ \ {c}]
    /\ IF conn[c].id \in DOMAIN tasks
       THEN conn' = [conn EXCEPT ![c].pc = "encode", ![c].task = tasks[conn[c].id]]
       ELSE conn' = [conn EXCEPT ![c].pc = "done", ![c].resp = Response(404, "")]
    /\ UNCHANGED <<authVars, tasks, heap, workers, committed, deleted, now>>
    /\ Track(c)

\* json.NewEncoder(w).Encode(task), with no lock held: the encoder reads the
\* fields in the order of the struct, one at a step
Encode(c) ==
    /\ conn[c].pc = "encode"
    /\ LET task == heap[conn[c].task]
           snap == conn[c].snap
           read == CASE snap.n = 0 -> [snap EXCEPT !.n = 1, !.TaskState = task.TaskState]
                     [] snap.n = 1 -> [snap EXCEPT !.n = 2, !.EndTime = task.EndTime]
                     [] snap.n = 2 -> [snap EXCEPT !.n = 3,
                                                    !.PercentComplete = task.PercentComplete]
                     [] OTHER -> [snap EXCEPT !.n = 4, !.Messages = task.Messages]
       IN  conn' = [conn EXCEPT
                       ![c].snap = read,
                       ![c].pc = IF read.n = 4 THEN "done" ELSE "encode",
                       ![c].resp = IF read.n < 4 THEN NoResp
                                   ELSE IF conn[c].handler = "tasksHandler"
                                   THEN [Response(201, "") EXCEPT !.location = conn[c].id]
                                   ELSE Response(200, "")]
    /\ UNCHANGED <<authVars, taskVars, now>>
    /\ Track(c)

\* handleGetTasks between RLock and the deferred RUnlock
List(c) ==
    /\ conn[c].pc = "list"
    /\ tasksMutex' = [tasksMutex EXCEPT !.readers = @ \ {c}]
    /\ conn' = [conn EXCEPT ![c].pc = "done",
                            ![c].resp = [Response(200, "") EXCEPT
                                            !.count = Cardinality(DOMAIN tasks)]]
    /\ UNCHANGED <<authVars, tasks, heap, workers, committed, deleted, now>>
    /\ Track(c)

\* ------------------------------------------------------------ workers

\* the step the worker of task record o takes next
Instr(o) == WorkerProgram(workers[o].kind)[workers[o].pc]

AtOp(o, op) ==
    /\ o \in 1..Len(workers)
    /\ workers[o].pc <= Len(WorkerProgram(workers[o].kind))
    /\ Instr(o).op = op

Advance(o) == workers' = [workers EXCEPT ![o].pc = @ + 1]

\* time.Sleep has returned; tasksMutex.Lock(), as in a handler
WorkerLock(o) ==
    /\ AtOp(o, "Lock")
    /\ tasksMutex.conn = "" /\ tasksMutex.worker \in {0, o}
    /\ tasksMutex' = [tasksMutex EXCEPT !.worker = o]
    /\ IF tasksMutex.readers # {}
       THEN UNCHANGED <<workers, now>>
       ELSE now' = now + 1 /\ Advance(o)
    /\ UNCHANGED <<authVars, tasks, heap, committed, deleted, conn, mutated>>

WorkerUpdateTaskState(o) ==
    /\ AtOp(o, "UpdateTaskState")
    /\ heap' = [heap EXCEPT ![o] = UpdateTaskState(@, Instr(o).state, now)]
    /\ Advance(o)
    /\ UNCHANGED <<authVars, tasks, tasksMutex, committed, deleted, now, conn, mutated>>

WorkerSetPercentComplete(o) ==
    /\ AtOp(o, "SetPercentComplete")
    /\ heap' = [heap EXCEPT ![o] = SetPercentComplete(@, Instr(o).percent)]
    /\ Advance(o)
    /\ UNCHANGED <<authVars, tasks, tasksMutex, committed, deleted, now, conn, mutated>>

WorkerAddMessage(o) ==
    /\ AtOp(o, "AddMessage")
    /\ heap' = [heap EXCEPT ![o] = AddMessage(@, SuccessMessage)]
    /\ Advance(o)
    /\ UNCHANGED <<authVars, tasks, tasksMutex, committed, deleted, now, conn, mutated>>

\* a worker that puts its task back in the map before it unlocks
WorkerUnlock_stores(o) ==
    /\ AtOp(o, "Unlock")
    /\ tasks' = Store(tasks, heap[o].ID, o)
    /\ tasksMutex' = Unlocked
    /\ committed' = [committed EXCEPT ![o] = @ \cup {View(heap[o])}]
    /\ Advance(o)
    /\ UNCHANGED <<authVars, heap, deleted, now, conn, mutated>>

\* a worker that leaves its critical section without tasksMutex.Unlock()
WorkerUnlock_keeps(o) ==
    /\ AtOp(o, "Unlock")
    /\ committed' = [committed EXCEPT ![o] = @ \cup {View(heap[o])}]
    /\ Advance(o)
    /\ UNCHANGED <<authVars, tasks, tasksMutex, heap, deleted, now, conn, mutated>>

WorkerUnlock(o) ==
    /\ AtOp(o, "Unlock")
    /\ tasksMutex' = Unlocked
    /\ committed' = [committed EXCEPT ![o] = @ \cup {View(heap[o])}]
    /\ Advance(o)
    /\ UNCHANGED <<authVars, tasks, heap, deleted, now, conn, mutated>>

\* ------------------------------------------------------------ the requests of the model

Admin == <<"admin", "password">>

Systems == redfish(<<"Systems">>)
Sessions == redfish(<<"SessionService", "Sessions">>)
Session(token) == redfish(<<"SessionService", "Sessions", token>>)
SystemReset == redfish(<<"Systems", "1", "Actions", "ComputerSystem.Reset">>)
ManagerReset == redfish(<<"Managers", "1", "Actions", "Manager.Reset">>)
Tasks == redfish(<<"TaskService", "Tasks">>)
Task(id) == redfish(<<"TaskService", "Tasks", id>>)
Subscriptions == redfish(<<"EventService", "Subscriptions">>)

Login(username, password) == Json([UserName |-> username, Password |-> password])

\* logins and logouts
SessionRequests ==
    {Request("POST", Sessions, NoBasic, "", body, NoParam, NoParam) :
        body \in {Login("admin", "password"), Login("operator", "password")}}
    \cup {Request(method, Session(token), NoBasic, token, NoBody, NoParam, NoParam) :
            method \in {"GET", "DELETE"}, token \in Tokens}

\* refused logins, and requests for protected and public paths under every kind
\* of credentials
AuthRequests ==
    {Request("POST", Sessions, NoBasic, "", body, NoParam, NoParam) :
        body \in {Login("admin", "wrong"), Login("mallory", "password"),
                  Login("admin", Absent), NoBody, Malformed}}
    \cup {Request("POST", Sessions, <<"operator", "password">>, "", NoBody, NoParam, NoParam)}
    \cup {Request("GET", Systems, basic, token, NoBody, NoParam, NoParam) :
            basic \in {NoBasic, Admin, <<"admin", "wrong">>, <<"mallory", "password">>},
            token \in Tokens \cup {"", "unrelated"}}
    \cup {Request("OPTIONS", Systems, basic, "", NoBody, NoParam, NoParam) :
            basic \in {NoBasic, Admin}}
    \cup {Request(method, Session(token), basic, "", NoBody, NoParam, NoParam) :
            method \in {"DELETE", "PATCH"}, basic \in {NoBasic, Admin}, token \in Tokens}
    \cup {Request("GET", path, NoBasic, "", NoBody, NoParam, NoParam) :
            path \in {redfish(<<"">>), <<"", "redfish", "v1">>, <<"", "health">>,
                      redfish(<<"$metadata">>), redfish(<<"odata">>),
                      redfish(<<"SessionService">>)}}

\* what creates, reads, lists and deletes tasks, as the seeded administrator
TaskRequests ==
    {Request("POST", path, Admin, "", NoBody, NoParam, NoParam) :
        path \in {SystemReset, ManagerReset, Tasks}}
    \cup {Request("GET", Tasks, Admin, "", NoBody, NoParam, NoParam)}
    \cup {Request(method, Task(id), Admin, "", NoBody, NoParam, NoParam) :
            method \in {"GET", "DELETE"}, id \in TaskIds}

ResetBodies ==
    {NoBody, Malformed, Json(<<>>)}
    \cup {Json([ResetType |-> v]) : v \in {"", "ForceRestart", "On", "Bogus", NotAString}}

\* requests that are refused, beside requests of the same kind that are served
ErrorRequests ==
    {Request("POST", path, Admin, "", body, NoParam, NoParam) :
        path \in {SystemReset, ManagerReset}, body \in ResetBodies}
    \cup {Request("POST", redfish(<<"Systems", "1", "Actions", "Bogus.Action">>),
                  Admin, "", NoBody, NoParam, NoParam)}
    \cup {Request("GET", Systems, Admin, "", NoBody, top, NoParam) :
            top \in {NoParam, <<"1">>, <<"-", "1">>, <<"a">>}}
    \cup {Request("GET", Systems, Admin, "", NoBody, <<"1">>, <<"x">>)}
    \cup {Request("POST", Sessions, NoBasic, "", body, NoParam, NoParam) :
            body \in {Login("admin", "password"), Login("admin", "wrong"), Malformed}}
    \cup {Request("POST", Subscriptions, Admin, "", body, NoParam, NoParam) :
            body \in {Json([Destination |-> "http://listener"]), Json(<<>>), Malformed}}
    \cup {Request("GET", Systems, NoBasic, "unrelated", NoBody, NoParam, NoParam)}

Chassis == redfish(<<"Chassis">>)
Managers == redfish(<<"Managers">>)

\* the digits of the largest int, 2^63-1, and of the number after it
MaxInt64 == <<"9", "2", "2", "3", "3", "7", "2", "0", "3", "6", "8", "5", "4", "7", "7", "5", "8", "0", "7">>
MaxInt64Plus1 == <<"9", "2", "2", "3", "3", "7", "2", "0", "3", "6", "8", "5", "4", "7", "7", "5", "8", "0", "8">>

\* the characters a client puts after "$top=" or "$skip="
QueryValues ==
    {NoParam, <<>>, <<"0">>, <<"1">>, <<"2">>, <<"-", "1">>, <<"a">>, MaxInt64, MaxInt64Plus1}

\* reads of the paginated collections
QueryRequests ==
    {Request("GET", path, Admin, "", NoBody, top, skip) :
        path \in {Systems, Chassis, Managers}, top \in QueryValues, skip \in QueryValues}

\* the request r with the query parameter $filter=f
Filtered(r, f) == [r EXCEPT !.filter = f]

\* the equality patterns applyFilterToSystems looks for
RecognizedFilters ==
    {PowerStateEq("'On'"), PowerStateEq("\"On\""), PowerStateEq("'Off'"), PowerStateEq("\"Off\"")}

\* filters of a client: the patterns, other comparisons and fields, a field
\* whose name ends in PowerState, a disjunction and an empty filter
Filters ==
    RecognizedFilters
    \cup {<<"Name", " eq ", "'System'">>, <<"PowerState", " ne ", "'Off'">>,
          <<"PowerState", " eq ", "'Offline'">>,
          <<"Last">> \o PowerStateEq("'Off'"),
          PowerStateEq("'Off'") \o <<" or ">> \o PowerStateEq("'On'"),
          <<>>}

\* filtered reads of the collections, whole and paginated
FilterRequests ==
    {Filtered(Request("GET", path, Admin, "", NoBody, top, skip), f) :
        path \in {Systems, Chassis}, top \in {NoParam, <<"1">>}, skip \in {NoParam, <<"1">>},
        f \in Filters}

\* the request r with the If-None-Match header v
Conditional(r, v) == [r EXCEPT !.ifNoneMatch = v]

\* If-None-Match values of a client that has read the document data: its ETag,
\* the ETag without its quotes or with one of them, the wildcard bare and
\* quoted, and the ETag of another document
Validators(data) ==
    {generateETag(data), <<md5(data)>>,
     <<Quote, md5(data)>>, <<"*">>, <<Quote, "*", Quote>>,
     generateETag(Document("other", <<>>)), <<>>}

\* conditional reads of a collection, whole and cut by $top and $skip, of a
\* session collection and of the service root
ConditionalRequests ==
    {Conditional(Request("GET", Systems, Admin, "", NoBody, top, NoParam), v) :
        top \in {NoParam, <<"1">>}, v \in Validators(Document("systemsHandler", SystemMembers))}
    \cup {Conditional(Request("GET", Chassis, Admin, "", NoBody, NoParam, skip), v) :
        skip \in {NoParam, <<"1">>}, v \in Validators(Document("chassisHandler", ChassisMembers))}
    \cup {Conditional(Request("GET", Managers, Admin, "", NoBody, NoParam, NoParam), v) :
        v \in Validators(Document("managersHandler", ManagerMembers))}
    \cup {Conditional(Request("GET", Sessions, NoBasic, "", NoBody, NoParam, NoParam), v) :
        v \in Validators(Document("sessionsHandler", <<>>))}
    \cup {Conditional(Request(method, redfish(<<"">>), NoBasic, "", NoBody, NoParam, NoParam), v) :
        method \in {"GET", "HEAD"}, v \in Validators(Document("serviceRootHandler", <<>>))}
    \cup {Conditional(Request("GET", redfish(<<"Managers", "1">>), Admin, "", NoBody, NoParam, NoParam), v) :
        v \in Validators(Document(<<"managerHandler", "1">>, <<>>))}

Subscription(id) == redfish(<<"EventService", "Subscriptions", id>>)

\* subscriptions created, listed, read and deleted
EventRequests ==
    {Request("POST", Subscriptions, Admin, "", body, NoParam, NoParam) :
        body \in {Json([Destination |-> "http://listener"]), Json(<<>>)}}
    \cup {Request("GET", Subscriptions, Admin, "", NoBody, NoParam, NoParam)}
    \cup {Request(method, Subscription(id), Admin, "", NoBody, NoParam, NoParam) :
            method \in {"GET", "DELETE", "PATCH"}, id \in SubscriptionIds \cup {""}}

\* the percentages a caller of SetPercentComplete passes: the ends of the
\* range, values inside it and the first values outside it
Percents == {-1, 0, 1, 50, 99, 100, 101}

\* a caller of task.SetPercentComplete(percent) that holds tasksMutex for the call
CallSetPercentComplete(o, percent) ==
    /\ o \in DOMAIN heap
    /\ tasksMutex = Unlocked
    /\ heap' = [heap EXCEPT ![o] = SetPercentComplete(@, percent)]
    /\ UNCHANGED <<authVars, tasks, workers, tasksMutex, committed, deleted, now, conn, mutated>>

\* ------------------------------------------------------------ specifications

HandlerStep(c) ==
    \/ Lock(c)
    \/ RLock(c)
    \/ Insert(c)
    \/ Respond(c)
    \/ Delete(c)
    \/ Get(c)
    \/ Encode(c)
    \/ List(c)

WorkerStep(o) ==
    \/ WorkerLock(o)
    \/ WorkerUpdateTaskState(o)
    \/ WorkerSetPercentComplete(o)
    \/ WorkerAddMessage(o)
    \/ WorkerUnlock(o)

\* the session store behind the middleware: one client logs in and out while
\* another tries every kind of credentials
NextAuth ==
    \/ \E r \in SessionRequests \cup AuthRequests : Arrive("c1", r)
    \/ \E r \in SessionRequests : Arrive("c2", r)
    \/ \E c \in Conns : SessionItemStep(c) \/ Close(c)

SpecAuth == Init /\ [][NextAuth]_vars

\* the task store, its handlers and its workers
NextTask ==
    \/ \E r \in {q \in TaskRequests : q.method = "POST"} :
          Arrive("c1", r) /\ Len(heap') <= MaxTasks
    \/ \E r \in {q \in TaskRequests : q.method # "POST"} : Arrive("c2", r)
    \/ \E c \in Conns : HandlerStep(c) \/ Close(c)
    \/ \E o \in 1..MaxTasks : WorkerStep(o)

SpecTask == Init /\ [][NextTask]_vars

\* refused requests of one client beside the accepted requests of another
NextError ==
    \/ \E r \in ErrorRequests : Arrive("c1", r) /\ Len(heap') <= MaxTasks
    \/ \E r \in {q \in TaskRequests : q.path = SystemReset} :
          Arrive("c2", r) /\ Len(heap') <= MaxTasks
    \/ \E c \in Conns : Lock(c) \/ Insert(c) \/ Respond(c) \/ Close(c)
    \/ \E o \in 1..MaxTasks : WorkerStep(o)

SpecError == Init /\ [][NextError]_vars

\* the reset actions and the task store under the scheduling of the Go runtime,
\* beside a client that reads, lists and deletes tasks: a goroutine that can
\* run does run, and a worker that calls Lock gets the lock (sync.Mutex hands a
\* starving waiter the lock; RWMutex keeps new readers out for a waiting writer)
NextReset ==
    \/ \E r \in {q \in TaskRequests : q.path \in {SystemReset, ManagerReset}} :
          Arrive("c1", r) /\ Len(heap') <= MaxTasks
    \/ \E r \in {q \in TaskRequests : q.method # "POST"} : Arrive("c2", r)
    \/ \E c \in Conns : HandlerStep(c) \/ Close(c)
    \/ \E o \in 1..MaxTasks : WorkerStep(o)

FairSpecReset ==
    /\ Init /\ [][NextReset]_vars
    /\ \A c \in Conns : WF_vars(HandlerStep(c))
    /\ \A o \in 1..MaxTasks :
          /\ SF_vars(WorkerLock(o))
          /\ WF_vars(WorkerUpdateTaskState(o) \/ WorkerSetPercentComplete(o)
                        \/ WorkerAddMessage(o) \/ WorkerUnlock(o))

\* the task store with the three handlers that create tasks, under the same
\* scheduling
FairSpecTask ==
    /\ Init /\ [][NextTask]_vars
    /\ \A c \in Conns : WF_vars(HandlerStep(c))
    /\ \A o \in 1..MaxTasks :
          /\ SF_vars(WorkerLock(o))
          /\ WF_vars(WorkerUpdateTaskState(o) \/ WorkerSetPercentComplete(o)
                        \/ WorkerAddMessage(o) \/ WorkerUnlock(o))

\* one client pages through the collections while another revalidates the
\* documents it has read
NextQuery ==
    \/ \E r \in QueryRequests \cup FilterRequests : Arrive("c1", r)
    \/ \E r \in ConditionalRequests : Arrive("c2", r)
    \/ \E c \in Conns : Close(c)

SpecQuery == Init /\ [][NextQuery]_vars

\* tasks are created and worked on while a caller sets their percentage
NextSetter ==
    \/ \E r \in {q \in TaskRequests : q.method = "POST"} :
          Arrive("c1", r) /\ Len(heap') <= MaxTasks
    \/ \E c \in Conns : Lock(c) \/ Insert(c) \/ Respond(c) \/ Close(c)
    \/ \E o \in 1..MaxTasks : WorkerStep(o)
    \/ \E o \in 1..MaxTasks : \E percent \in Percents : CallSetPercentComplete(o, percent)

SpecSetter == Init /\ [][NextSetter]_vars

\* two clients of the event service
NextEvent ==
    \/ \E c \in Conns : \E r \in EventRequests : Arrive(c, r)
    \/ \E c \in Conns : Close(c)

SpecEvent == Init /\ [][NextEvent]_vars

\* two clients create tasks at the same time and one after the other: one by
\* every handler that creates a task, the other by POST on the collection
NextCreate ==
    \/ \E r \in {q \in TaskRequests : q.method = "POST"} :
          Arrive("c1", r) /\ Len(heap') <= MaxRecords
    \/ \E r \in {q \in TaskRequests : q.method = "POST" /\ q.path = Tasks} :
          Arrive("c2", r) /\ Len(heap') <= MaxRecords
    \/ \E c \in Conns : Lock(c) \/ Insert(c) \/ Respond(c) \/ Encode(c) \/ Close(c)
    \/ \E o \in 1..MaxRecords : WorkerStep(o)

SpecCreate == Init /\ [][NextCreate]_vars

Next ==
    NextAuth \/ NextTask \/ NextError \/ NextQuery \/ NextEvent \/ NextSetter \/ NextCreate

Spec == Init /\ [][Next]_vars

\* ------------------------------------------------------------ properties

ResetHandlers == {"systemHandler", "managerHandler"}

\* the request of connection c has been answered with status
Answered(c, status) == conn[c].pc = "done" /\ conn[c].resp.status = status

\* C1: a token CreateSession has returned for a user validates as (user, true)
\* as long as DeleteSession has not been called on it, and as ("", false) in
\* every state after DeleteSession has returned.
SessionRoundTrip ==
    \A t \in DOMAIN issued :
        ValidateSessionToken(sessions, t) =
            IF t \in revoked THEN <<"", FALSE>> ELSE <<issued[t], TRUE>>

\* one session has been deleted while another is live
SessionRoundTripWitness ==
    \E t \in DOMAIN issued : \E u \in DOMAIN issued :
        /\ t \in revoked
        /\ ValidateSessionToken(sessions, u) = <<issued[u], TRUE>>

\* the credentials of request r pass against the session store s
Passes(s, r) ==
    \/ r.basic # NoBasic /\ ValidateBasicAuth(r.basic[1], r.basic[2])
    \/ r.token \in DOMAIN s

\* C2: when a request for a path that requires authentication arrives, it gets
\* past the middleware to a handler if and only if its Basic credentials are
\* valid or its token names a session in the store at that time; otherwise the
\* answer is 401 with a WWW-Authenticate challenge, no handler has run and
\* nothing has changed.
AuthGate ==
    [][\A c \in Conns :
          (conn[c].pc = "idle" /\ conn'[c].pc # "idle" /\ requiresAuth(conn'[c].req.path))
          => IF Passes(sessions, conn'[c].req)
             THEN conn'[c].handler # "" /\ conn'[c].resp.status # 401
             ELSE /\ conn'[c].handler = ""
                  /\ conn'[c].pc = "done"
                  /\ conn'[c].resp.status = 401
                  /\ conn'[c].resp.challenge
                  /\ stores' = stores]_vars

\* a deleted token has been refused while a live token has been let through
AuthGateWitness ==
    \E c \in Conns : \E d \in Conns :
        /\ Answered(c, 401) /\ conn[c].req.token \in revoked /\ conn[c].handler = ""
        /\ requiresAuth(conn[c].req.path)
        /\ conn[d].pc = "done" /\ conn[d].user.Method = "Session"
        /\ conn[d].handler = "sessionItemHandler"

\* C3: every task record starts in state New, and every change of its state
\* is New to Running or Running to Completed, Exception or Cancelled.
TaskStateTransitions ==
    [][\A o \in DOMAIN heap' :
          IF o \in DOMAIN heap
          THEN \/ heap'[o].TaskState = heap[o].TaskState
               \/ heap[o].TaskState = "New" /\ heap'[o].TaskState = "Running"
               \/ heap[o].TaskState = "Running" /\ heap'[o].TaskState \in Terminal
          ELSE heap'[o].TaskState = "New"]_vars

\* C4: the end time of a task record is unset exactly while its state is not
\* terminal, so it is set in the step that enters a terminal state, and once
\* set it keeps its value in every later state.
EndTimeSetOnce ==
    [][\A o \in DOMAIN heap :
          /\ (heap[o].EndTime = 0) <=> (heap[o].TaskState \notin Terminal)
          /\ (heap'[o].EndTime = 0) <=> (heap'[o].TaskState \notin Terminal)
          /\ (heap[o].EndTime # 0) => (heap'[o].EndTime = heap[o].EndTime)]_vars

\* a GET has read the end time of a task whose worker has finished
EndTimeSetOnceWitness ==
    \E c \in Conns : \E o \in DOMAIN heap :
        /\ Answered(c, 200) /\ conn[c].handler = "taskHandler" /\ conn[c].task = o
        /\ heap[o].TaskState \in Terminal
        /\ workers[o].pc > Len(WorkerProgram(workers[o].kind))
        /\ conn[c].snap.EndTime = heap[o].EndTime /\ heap[o].EndTime # 0

\* C5: the state, end time, percent-complete and messages a GET of a task
\* returns are those the record had at its creation or at the end of one
\* complete update of its worker.
GetTaskNotTorn ==
    \A c \in Conns :
        (Answered(c, 200) /\ conn[c].handler = "taskHandler")
        => conn[c].snap \in committed[conn[c].task]

\* C6: a reset action POSTed with no body creates its task in state New with
\* the default reset type of the action, and the task eventually is Completed
\* at 100 percent with the success message.
ResetCompletes ==
    /\ [][\A c \in Conns :
             (/\ conn[c].pc = "idle" /\ conn'[c].pc = "insert_lock"
              /\ conn'[c].handler \in ResetHandlers /\ conn'[c].req.body = NoBody)
             => LET o == conn'[c].task
                IN  /\ o \notin DOMAIN heap
                    /\ heap'[o].TaskState = "New"
                    /\ heap'[o].PercentComplete = 0
                    /\ heap'[o].JsonBody = defaultResetType(workers'[o].kind)]_vars
    /\ \A o \in 1..MaxTasks :
          (o \in DOMAIN heap /\ workers[o].kind # "PostTask")
          ~> (/\ o \in DOMAIN heap
              /\ heap[o].TaskState = "Completed"
              /\ heap[o].PercentComplete = 100
              /\ SuccessMessage \in Range(heap[o].Messages))

\* the task of a reset with no body is complete after it has been read and deleted
ResetCompletesWitness ==
    \E o \in DOMAIN heap :
        /\ workers[o].kind # "PostTask"
        /\ heap[o].JsonBody = defaultResetType(workers[o].kind)
        /\ heap[o].TaskState = "Completed" /\ heap[o].PercentComplete = 100
        /\ heap[o].Messages = <<SuccessMessage>>
        /\ heap[o].ID \in deleted

\* C7: a reset action whose body holds a ResetType outside the allow-list of
\* the action is answered 400 InvalidParameter and has changed no store.
ResetTypeGating ==
    \A c \in Conns :
        LET r == conn[c].req
        IN  (/\ conn[c].pc # "idle" /\ conn[c].handler \in ResetHandlers
             /\ r.method = "POST" /\ Len(r.path) = 7
             /\ r.body.kind = "json" /\ r.body.ResetType # Absent
             /\ r.body.ResetType \notin validResetTypes(r.path[7]))
            => /\ Answered(c, 400)
               /\ conn[c].resp.code = "InvalidParameter"
               /\ ~mutated[c]

\* C8: a request answered with an error has changed neither the session store
\* nor the task store and has started no worker.
ErrorsMutateNothing ==
    \A c \in Conns :
        (conn[c].pc = "done" /\ conn[c].resp.status >= 400) => ~mutated[c]

\* a request has been refused with a Redfish error while both stores held something
ErrorsMutateNothingWitness ==
    /\ sessions # <<>> /\ tasks # <<>>
    /\ \E c \in Conns :
          /\ Answered(c, 400)
          /\ conn[c].resp.code \in {"MalformedJSON", "InvalidParameter", "ActionNotSupported",
                                    "QueryParameterError"}

\* C9: when a reset action has been answered 202, the identifier in its
\* Location is in the task store unless a DELETE has removed it since.
AcceptedTaskInserted ==
    \A c \in Conns :
        Answered(c, 202)
        => conn[c].resp.location \in DOMAIN tasks \/ conn[c].resp.location \in deleted

\* a 202 has been answered and its task is in the store
AcceptedTaskInsertedWitness ==
    \E c \in Conns :
        /\ Answered(c, 202)
        /\ conn[c].resp.location \in DOMAIN tasks
        /\ heap[tasks[conn[c].resp.location]].TaskState = "New"

\* C10: a task record in a terminal state whose worker is not inside its
\* update holds at least one message.
TerminalHasMessage ==
    \A o \in DOMAIN heap :
        (heap[o].TaskState \in Terminal /\ tasksMutex.worker # o)
        => heap[o].Messages # <<>>

\* C11: the document a GET of a task returns holds percent-complete 100 only
\* together with the state Completed.
PercentHundredOnlyCompleted ==
    \A c \in Conns :
        (Answered(c, 200) /\ conn[c].handler = "taskHandler")
        => (conn[c].snap.PercentComplete = 100 => conn[c].snap.TaskState = "Completed")

\* C12: a token in the session store keeps the username it was issued for in
\* every step, whatever sessions are created, validated or deleted beside it,
\* and it leaves the store only in the step of a DELETE of that very token.
TokenKeepsUser ==
    [][\A t \in DOMAIN sessions :
          /\ sessions[t] = issued[t]
          /\ \/ t \in DOMAIN sessions' /\ sessions'[t] = sessions[t]
             \/ \E c \in Conns :
                   /\ conn[c].pc = "session" /\ conn[c].req.method = "DELETE"
                   /\ conn[c].id = t /\ conn'[c].pc = "done"]_vars

\* a session of one user has been used after the session of another was deleted
TokenKeepsUserWitness ==
    \E t \in revoked : \E c \in Conns :
        /\ Answered(c, 200) /\ conn[c].handler = "sessionItemHandler"
        /\ conn[c].req.token \in DOMAIN sessions
        /\ conn[c].user = [Username |-> issued[conn[c].req.token], Method |-> "Session"]
        /\ issued[conn[c].req.token] # issued[t]

\* the paths the specification exempts from authentication: the health check,
\* the root, metadata and OData documents and every session-service path
ExemptPath(path) ==
    \/ path \in {<<"", "health">>, redfish(<<"">>), redfish(<<"$metadata">>), redfish(<<"odata">>)}
    \/ Len(path) >= 4 /\ SubSeq(path, 1, 4) = redfish(<<"SessionService">>)

\* C13: a request without credentials for an exempt path, an individual
\* session included, gets past the middleware to a handler.
ExemptPathsOpen ==
    \A c \in Conns :
        (/\ conn[c].pc # "idle" /\ ExemptPath(conn[c].req.path)
         /\ conn[c].req.basic = NoBasic /\ conn[c].req.token = "")
        => conn[c].handler # ""

CollectionHandlers == {"systemsHandler", "chassisHandler", "managersHandler"}

\* the members of the collection a handler pages through
Members(h) ==
    CASE h = "systemsHandler" -> SystemMembers
      [] h = "chassisHandler" -> ChassisMembers
      [] h = "managersHandler" -> ManagerMembers

\* the value is a base-10 integer that is not negative
NonNegative(value) == value # NoParam /\ ~Atoi(value).err /\ ~IsNeg(Atoi(value).val)

\* the value of an int that is not negative, or bound if it is above bound
AtMost(bound, value) == IF Less64(Int64(bound), value) THEN bound ELSE ToInt(value)

Min(a, b) == IF a < b THEN a ELSE b
Max(a, b) == IF a > b THEN a ELSE b

\* C14: a GET of the Systems, Chassis or Managers collection with $top=t and
\* $skip=s, both integers that are not negative, returns max(0, min(t, N-s))
\* of the N members when s <= N and none when s > N
PageSize ==
    \A c \in Conns :
        LET r == conn[c].req
            n == Len(Members(conn[c].handler))
            t == AtMost(n + 1, Atoi(r.top).val)
            s == AtMost(n + 1, Atoi(r.skip).val)
        IN  (/\ conn[c].pc = "done" /\ conn[c].handler \in CollectionHandlers
             /\ r.method = "GET" /\ r.ifNoneMatch = <<>> /\ r.filter = NoParam
             /\ NonNegative(r.top) /\ NonNegative(r.skip))
            => /\ conn[c].resp.status = 200
               /\ conn[c].resp.count = IF s > n THEN 0 ELSE Max(0, Min(t, n - s))

\* C15: a $top or $skip that is in the URL and is no integer that is not
\* negative (letters, a negative number, nothing after the "=") is answered
\* 400 QueryParameterError without members
BadParameterRefused ==
    \A c \in Conns :
        LET r == conn[c].req
        IN  (/\ conn[c].pc = "done" /\ conn[c].handler \in CollectionHandlers
             /\ r.method = "GET"
             /\ \/ r.top # NoParam /\ ~NonNegative(r.top)
                \/ r.skip # NoParam /\ ~NonNegative(r.skip))
            => /\ conn[c].resp.status = 400
               /\ conn[c].resp.code = "QueryParameterError"
               /\ conn[c].resp.count = -1

\* C16: a DELETE of SessionService/Sessions/{token} that reaches its handler
\* answers 204, also when it repeats a DELETE that has removed the session
DeleteSessionRepeats ==
    \A c \in Conns :
        (/\ conn[c].pc = "done" /\ conn[c].handler = "sessionItemHandler"
         /\ conn[c].req.method = "DELETE"
         /\ sessionID(conn[c].req.path) \in revoked)
        => conn[c].resp.status = 204

\* C17: DeleteSession on a token the store does not hold (never issued, or
\* deleted before) fails nowhere and leaves the store as it is, DeleteSession
\* on a token it holds removes that session and no other, and a second
\* DeleteSession on the same token changes nothing after the first
DeleteSessionIdempotent ==
    [][/\ \A t \in Tokens \cup {"unrelated"} :
             /\ t \notin DOMAIN sessions => DeleteSession(sessions, t) = sessions
             /\ DeleteSession(DeleteSession(sessions, t), t) = DeleteSession(sessions, t)
       /\ \A c \in Conns :
             (/\ conn[c].pc = "session" /\ conn[c].req.method = "DELETE"
              /\ conn'[c].pc = "done")
             => /\ conn'[c].resp.status = 204
                /\ DOMAIN sessions' = DOMAIN sessions \ {conn[c].id}
                /\ \A t \in DOMAIN sessions' : sessions'[t] = sessions[t]]_vars

\* two DELETE requests for one token have both passed the handler's lookup and
\* both called DeleteSession, the second on a store without the token, beside
\* the session of another token
DeleteSessionIdempotentWitness ==
    /\ \A c \in Conns :
          /\ Answered(c, 204) /\ conn[c].handler = "sessionItemHandler"
          /\ conn[c].req.method = "DELETE"
    /\ sessionID(conn["c1"].req.path) = sessionID(conn["c2"].req.path)
    /\ sessionID(conn["c1"].req.path) \in revoked
    /\ sessions # <<>>

\* the handlers whose GET computes the validator of its document
ValidatorHandlers ==
    CollectionHandlers \cup {"sessionsHandler", "serviceRootHandler", "managerHandler"}

\* a validator without its surrounding quotes, if it has them
Strip(v) ==
    IF Len(v) >= 2 /\ Head(v) = Quote /\ Last(v) = Quote
    THEN [i \in 1..(Len(v) - 2) |-> v[i + 1]]
    ELSE v

\* the If-None-Match value matches the validator
matches(validator, clientValidator) ==
    Strip(clientValidator) = Strip(validator) \/ clientValidator = <<"*">>

EveryReadHasValidator ==
    \A c \in Conns :
        (Answered(c, 200) /\ conn[c].req.method = "GET")
        => conn[c].resp.etag # <<>>

\* the verbs a handler declares in its Allow header
Allow ==
    [h \in {"healthHandler", "serviceRootHandler", "sessionsHandler", "sessionItemHandler",
            "systemsHandler", "chassisHandler", "managersHandler"} |->
        CASE h = "serviceRootHandler" -> {"GET", "HEAD"}
          [] h = "sessionsHandler" -> {"GET", "POST"}
          [] h = "sessionItemHandler" -> {"GET", "DELETE"}
          [] OTHER -> {"GET"}]

\* C20: a request that reaches the handler of its path with a verb the handler
\* does not declare is answered 405 MethodNotAllowed, never 404, on the path
\* of one session as on any other
UnsupportedVerbRefused ==
    \A c \in Conns :
        (/\ conn[c].pc = "done" /\ conn[c].handler \in DOMAIN Allow
         /\ conn[c].req.method \notin Allow[conn[c].handler])
        => /\ conn[c].resp.status = 405
           /\ conn[c].resp.code = "MethodNotAllowed"

\* C21: a GET or DELETE of a subscription is answered 404, whatever
\* subscriptions have been created before it, the one it names included
SubscriptionNotRetained ==
    [][\A c \in Conns :
          (/\ conn[c].pc = "idle" /\ conn'[c].pc = "done"
           /\ conn'[c].handler = "eventSubscriptionHandler"
           /\ conn'[c].req.method \in {"GET", "DELETE"}
           /\ conn'[c].req.path[6] \in SubscriptionIds)
          => conn'[c].resp.status = 404]_vars

\* a subscription has been created and a GET of the identifier that the POST
\* returned has been answered 404
SubscriptionNotRetainedWitness ==
    /\ Answered("c1", 201) /\ conn["c1"].handler = "eventSubscriptionsHandler"
    /\ Answered("c2", 404) /\ conn["c2"].handler = "eventSubscriptionHandler"
    /\ conn["c2"].req.method = "GET"
    /\ conn["c2"].req.path = Subscription(conn["c1"].resp.location)

\* the members handler h answers for the query parameters params
Page(h, params) ==
    CASE h = "systemsHandler" -> applyQueryParametersToSystems(SystemMembers, params)
      [] h = "chassisHandler" -> applyQueryParametersToChassis(ChassisMembers, params)
      [] h = "managersHandler" -> applyQueryParametersToManagers(ManagerMembers, params)

\* C22: a GET of a collection with a $filter that is none of the recognized
\* equality patterns is answered 200 with as many members as the same GET
\* without the $filter
UnrecognizedFilterNoOp ==
    \A c \in Conns :
        LET r == conn[c].req
        IN  (/\ conn[c].pc = "done" /\ conn[c].handler \in CollectionHandlers
             /\ r.method = "GET" /\ r.ifNoneMatch = <<>>
             /\ r.filter # NoParam /\ r.filter \notin RecognizedFilters)
            => /\ conn[c].resp.status = 200
               /\ conn[c].resp.count =
                     Len(Page(conn[c].handler, parseQueryParameters(r.top, r.skip, NoParam)))

\* the query parameters $top=t and $skip=s
TopSkip(t, s) == [err |-> FALSE, Top |-> Int64(t), Skip |-> Int64(s), Filter |-> <<>>]

\* C23: the slice of a member list by skip and top stays inside the list
\* (0 <= start <= end <= size) for every skip and top that is not negative;
\* a skip above the size of the list, filtered or not, gives no members and a
\* top above the number of members after skip gives all of them
SliceInBounds ==
    /\ \A n \in 0..MaxMembers : \A t \in 0..(MaxMembers + 1) : \A s \in 0..(MaxMembers + 1) :
          LET members == [i \in 1..n |-> ToString(i)]
              rest == IF s > n THEN <<>> ELSE [i \in 1..(n - s) |-> members[s + i]]
          IN  /\ applyQueryParametersToSystems(members, TopSkip(t, s)) # Panic
              /\ s > n => applyQueryParametersToSystems(members, TopSkip(t, s)) = <<>>
              /\ t > Len(rest) =>
                    /\ applyQueryParametersToSystems(members, TopSkip(t, s)) = rest
                    /\ applyQueryParametersToChassis(members, TopSkip(t, s)) = rest
                    /\ applyQueryParametersToManagers(members, TopSkip(t, s)) = rest
    /\ \A c \in Conns :
          LET r == conn[c].req
              params == parseQueryParameters(r.top, r.skip, r.filter)
              n == Len(Page(conn[c].handler, parseQueryParameters(NoParam, NoParam, r.filter)))
              skip == AtMost(n + 1, params.Skip)
              rest == IF skip > n THEN 0 ELSE n - skip
          IN  (/\ conn[c].pc = "done" /\ conn[c].handler \in CollectionHandlers
               /\ r.method = "GET" /\ r.ifNoneMatch = <<>> /\ ~params.err)
              => /\ conn[c].resp.status = 200
                 /\ conn[c].resp.count <= rest
                 /\ skip > n => conn[c].resp.count = 0
                 /\ Less64(Int64(rest), params.Top) => conn[c].resp.count = rest

\* C24: on every task, SetPercentComplete stores 0 for a value below 0, 100
\* for a value above 100 and the value itself in between, so that
\* PercentComplete is never outside 0..100
PercentClamped ==
    \A o \in DOMAIN heap : \A percent \in Percents :
        /\ heap[o].PercentComplete \in 0..100
        /\ SetPercentComplete(heap[o], percent).PercentComplete = Max(0, Min(100, percent))

\* C25: the steps of a worker leave the task map as it is, so an identifier
\* that has been deleted stays out of the map (until a later creation stores a
\* task under it), a GET that looks it up is answered 404 and the collection
\* does not count it
DeletedStaysAbsent ==
    [][/\ \A id \in deleted : id \notin DOMAIN tasks
       /\ \A id \in deleted :
             id \in DOMAIN tasks' => \E c \in Conns : conn[c].pc = "insert" /\ conn[c].id = id
       /\ (Len(workers') = Len(workers) /\ workers' # workers) => tasks' = tasks
       /\ \A c \in Conns :
             /\ (conn[c].pc = "get" /\ conn[c].id \in deleted /\ conn'[c].pc # "get")
                => conn'[c].pc = "done" /\ conn'[c].resp.status = 404
             /\ (conn[c].pc = "list" /\ conn'[c].pc = "done")
                => conn'[c].resp.count = Cardinality(DOMAIN tasks \ deleted)]_vars

\* a task has been deleted before its worker took the lock, the worker has
\* updated the record, and a GET of the identifier has been answered 404
DeletedStaysAbsentWitness ==
    \E o \in DOMAIN heap : \E c \in Conns :
        /\ heap[o].ID \in deleted
        /\ AtOp(o, "Unlock") /\ heap[o].TaskState = "Completed"
        /\ Answered(c, 404) /\ conn[c].handler = "taskHandler"
        /\ conn[c].req.method = "GET" /\ conn[c].req.path = Task(heap[o].ID)

\* C26: while the handler that created a task record has not yet inserted it in
\* the map, the record is as models.NewTask made it: in state New, with
\* PercentComplete 0 and no message, so the first request that can find the
\* task observes New and 0
NoMutationBeforeInsert ==
    \A c \in Conns :
        conn[c].pc \in {"insert_lock", "insert"}
        => /\ heap[conn[c].task].TaskState = "New"
           /\ heap[conn[c].task].PercentComplete = 0
           /\ heap[conn[c].task].Messages = <<>>

\* C27: an identifier that is in the map keeps pointing to the same task
\* record for as long as it stays in the map: no creation stores another
\* record under it
TaskIdsUnique ==
    [][\A id \in DOMAIN tasks : id \in DOMAIN tasks' => tasks'[id] = tasks[id]]_vars

\* C28: a task record whose state is Completed, Exception or Cancelled keeps
\* that state in every later step, of a worker and of a request
TerminalAbsorbing ==
    [][\A o \in DOMAIN heap :
          heap[o].TaskState \in Terminal => heap'[o].TaskState = heap[o].TaskState]_vars

\* a worker has taken its last step, and a request that read its task
\* afterwards has been answered with the terminal state
TerminalAbsorbingWitness ==
    \E o \in DOMAIN heap : \E c \in Conns :
        /\ workers[o].pc > Len(WorkerProgram(workers[o].kind))
        /\ heap[o].TaskState \in Terminal
        /\ Answered(c, 200) /\ conn[c].handler = "taskHandler"
        /\ conn[c].task = o /\ conn[c].snap.TaskState = heap[o].TaskState

\* C29: no step lowers the PercentComplete of a task record, whichever handler
\* created it
PercentNonDecreasing ==
    [][\A o \in DOMAIN heap :
          heap'[o].PercentComplete >= heap[o].PercentComplete]_vars

\* the worker of a task created by POST on the collection has taken its last
\* step, and its record went from 0 over 50 to 100
PercentNonDecreasingWitness ==
    \E o \in DOMAIN heap :
        /\ workers[o].kind = "PostTask"
        /\ workers[o].pc > Len(WorkerProgram(workers[o].kind))
        /\ {v.PercentComplete : v \in committed[o]} = {0, 50, 100}
        /\ heap[o].PercentComplete = 100

\* whoever holds tasksMutex, or has called Lock and waits for the readers
\* inside to leave, has a step to take, and so has every reader inside
LockHolderCanStep ==
    /\ ~(tasksMutex.worker # 0 /\ tasksMutex.conn # "")
    /\ tasksMutex.worker # 0
       => tasksMutex.readers # {} \/ ENABLED WorkerStep(tasksMutex.worker)
    /\ \A c \in Conns :
          /\ tasksMutex.conn = c
             => tasksMutex.readers # {} \/ ENABLED (Lock(c) \/ Insert(c) \/ Delete(c))
          /\ c \in tasksMutex.readers => ENABLED (Get(c) \/ List(c))

\* the worker of task record o has returned
Returned(o) == o \in DOMAIN workers /\ workers[o].pc > Len(WorkerProgram(workers[o].kind))

====
